---- MODULE Spec2Model ----
(***************************************************************************)
(* A model of postgress/db_inspect.py: the command-line run of main()      *)
(* (connect, dispatch to clear / export-one / export-all / reporting,      *)
(* leave the with-block, close), the functions clear_table, export_table   *)
(* and export_all_tables against a database that other clients may write   *)
(* to, and the pure functions print_table and the CSV serialisation of     *)
(* export_table.                                                           *)
(***************************************************************************)
EXTENDS Integers, Sequences, FiniteSets, TLC

(* ------------------------------ bounds -------------------------------- *)

\* Largest number of rows a table of the modelled database holds.
MaxRows == 2

\* Number of statements a concurrent database client commits during a run.
MaxWrites == 1

\* Largest number of rows passed to print_table.
MaxPrintRows == 2

\* Largest number of rows the exported query result holds.
MaxExportRows == 2

(* ------------------------- program constants -------------------------- *)

\* Python's None (an option that was not given, no value).
None == "None"

SECTIONS == <<"participants", "submissions", "feedback", "events", "all">>

CLEARABLE_TABLES == <<"participants", "code_submissions", "feedback", "events">>

EXPORTABLE_TABLES == <<"participants", "code_submissions", "feedback", "events">>

Range(s) == {s[i] : i \in DOMAIN s}

\* The tables of the study database.
Tables == Range(CLEARABLE_TABLES) \cup Range(EXPORTABLE_TABLES)

\* A table name that is in neither whitelist (a direct call may pass one).
OtherTable == "users"

\* The report sections in the order main() runs them.
ReportOrder == <<"participants", "submissions", "feedback", "events">>

\* Number of statements each section issues outside any try block.
PlainQueries ==
  [participants |-> 7, submissions |-> 4, feedback |-> 4, events |-> 2]

\* What may be typed at the confirmation prompt; EOF is end of input.
Inputs == {"YES", "yes", " YES", "YES ", "", "EOF"}

(* ------------------------------- state -------------------------------- *)

VARIABLES
  entry,        \* "main", or the function a caller invokes directly
  argv,         \* the options given on the command line (None: not given)
  args,         \* the namespace parse_args() returns
  pc,           \* position in the program
  conn,         \* "none" | "open" | "closed"
  cur,          \* "none" | "open" | "closed"
  tx,           \* the connection's transaction: "idle" | "active" | "aborted"
  exc,          \* the exception propagating, "none" when there is none
  modes,        \* the modes main() has entered, in order
  db,           \* committed rows of each table
  db0,          \* the committed rows of each table when the run started
  txDel,        \* rows of each table deleted by the open transaction
  call,         \* the running clear_table / export_table call and its locals
  ret,          \* what the last clear_table / export_table call returned
  issued,       \* the statements issued on the cursor, in order
  prompted,     \* whether input() was called
  cleared,      \* <<rows the DELETE removed, rows the message reports>>
  fs,           \* the file system: directory made, data rows of each CSV file
  loop,         \* export_all_tables' locals
  report,       \* the reporting run: section, query, tables printed, notice
  exitCode,     \* -1 while running
  writes,       \* statements committed by the concurrent client so far
  delta,        \* net rows the concurrent client added to each table
  pt,           \* a call of print_table: its arguments and what it printed
  csv           \* the try block of export_table: the rows, the file, the result

vars == <<entry, argv, args, pc, conn, cur, tx, exc, modes, db, txDel, call,
          ret, issued, prompted, cleared, fs, loop, report, exitCode,
          writes, db0, delta, pt, csv>>

(* ----------------------------- helpers -------------------------------- *)

\* parse_args(): --section defaults to "all", the other options to None/False.
ParseArgs(av) ==
  [section      |-> IF av.section = None THEN "all" ELSE av.section,
   clear_table  |-> av.clear_table,
   export_table |-> av.export_table,
   export_all   |-> av.export_all,
   output_dir   |-> av.output_dir]

\* The command lines argparse accepts (choices= restricts the table names).
ArgvSet ==
  [section      : Range(SECTIONS) \cup {None},
   clear_table  : Range(CLEARABLE_TABLES) \cup {None},
   export_table : Range(EXPORTABLE_TABLES) \cup {None},
   export_all   : BOOLEAN,
   output_dir   : {None, "out"}]

NoArgv ==
  [section |-> None, clear_table |-> None, export_table |-> None,
   export_all |-> FALSE, output_dir |-> None]

NoCall ==
  [fn |-> "none", table_name |-> None, output_dir |-> None,
   caller |-> "none", row_count |-> -1, confirmation |-> None]

NewCall(fn, t, dir, caller) ==
  [fn |-> fn, table_name |-> t, output_dir |-> dir, caller |-> caller,
   row_count |-> -1, confirmation |-> None]

\* The locals of export_all_tables; results logs what each export_table call
\* of the loop returned.
NoLoop ==
  [i |-> 0, success_count |-> 0, total_rows |-> 0, summary |-> <<>>,
   results |-> <<>>]

NoReport ==
  [sec |-> 0, q |-> 0, printed |-> [i \in DOMAIN ReportOrder |-> 0],
   notice |-> FALSE, median |-> FALSE, failed |-> "none"]

NoFiles == [dir |-> FALSE, rows |-> [t \in Tables |-> -1]]

\* A statement on a transaction the engine has marked aborted always fails;
\* otherwise the engine may accept or reject it.
Outcomes == IF tx = "aborted" THEN {FALSE} ELSE BOOLEAN

\* The rows of table t the session's next statement sees.
Visible(t) == db[t] - txDel[t]

\* Where control goes when an exception leaves the running function uncaught.
Raise(e) ==
  /\ exc' = e
  /\ pc' = IF entry = "main" THEN "exit_raise" ELSE "done"

\* Where control goes when clear_table / export_table returns v.
Return(v) ==
  /\ ret' = v
  /\ pc' = CASE call.caller = "main" /\ call.fn = "clear_table" -> "clear_return"
             [] call.caller = "main" /\ call.fn = "export_table" -> "exit_return"
             [] call.caller = "export_all" -> "export_all_count"
             [] OTHER -> "done"

(* ------------------------------- Init --------------------------------- *)

\* The tables whose rows the run reads or deletes: the one table of a clear
\* or an export, every table of an export of all, none in a reporting run
\* (the model of a report query keeps only whether it succeeded).
ReadTables ==
  IF entry # "main" THEN {call.table_name} \cap Tables
  ELSE IF args.clear_table # None THEN {args.clear_table}
  ELSE IF args.export_table # None THEN {args.export_table}
  ELSE IF args.export_all THEN Range(EXPORTABLE_TABLES)
  ELSE {}

\* The database when the run starts: the tables the run reads hold n rows
\* each (the other client's writes then make them differ), the others are
\* left empty.
DbInit ==
  {[t \in Tables |-> IF t \in ReadTables THEN n ELSE 0] : n \in 0..MaxRows}

InitMain ==
  /\ entry = "main"
  /\ argv \in ArgvSet
  /\ args = ParseArgs(argv)
  /\ pc = "connect"
  /\ conn = "none"
  /\ cur = "none"
  /\ call = NoCall

\* clear_table(cur, name) / export_table(cur, name, dir) called on an open
\* cursor by a caller other than main(): any name may be passed.
InitDirect ==
  /\ entry \in {"clear_table", "export_table"}
  /\ argv = NoArgv
  /\ args = ParseArgs(argv)
  /\ pc = IF entry = "clear_table" THEN "clear_begin" ELSE "export_begin"
  /\ conn = "open"
  /\ cur = "open"
  /\ \E t \in Tables \cup {OtherTable}, dir \in {None, "out"} :
       /\ entry = "clear_table" => dir = None
       /\ call = NewCall(entry, t, dir, "direct")

NoPrint == [title |-> <<>>, rows |-> <<>>, headers |-> <<>>, out |-> <<>>,
            called |-> FALSE]

NoExport == [headers |-> <<>>, rows |-> <<>>, file |-> <<>>, written |-> FALSE,
             ret |-> "None", parsed |-> <<>>, read |-> FALSE]

\* The state of a run before it starts.
InitRun ==
  /\ tx = "idle"
  /\ exc = "none"
  /\ modes = <<>>
  /\ db \in DbInit
  /\ txDel = [t \in Tables |-> 0]
  /\ ret = "None"
  /\ issued = <<>>
  /\ prompted = FALSE
  /\ cleared = <<>>
  /\ fs = NoFiles
  /\ loop = NoLoop
  /\ report = NoReport
  /\ exitCode = -1
  /\ writes = 0
  /\ db0 = db
  /\ delta = [t \in Tables |-> 0]

Init ==
  /\ InitMain \/ InitDirect
  /\ InitRun
  /\ pt = NoPrint
  /\ csv = NoExport

(* ------------------------------ main() -------------------------------- *)

\* ModeOf with the export-one test moved before the clear test.
ModeOfExportFirst(a) ==
  IF a.export_table # None THEN "export-one"
  ELSE IF a.clear_table # None THEN "clear"
  ELSE IF a.export_all THEN "export-all"
  ELSE "reporting"

\* The mode main()'s chain of ifs selects.
ModeOf(a) ==
  IF a.clear_table # None THEN "clear"
  ELSE IF a.export_table # None THEN "export-one"
  ELSE IF a.export_all THEN "export-all"
  ELSE "reporting"

Selected(i) == args.section \in {ReportOrder[i], "all"}

\* The first section at or after position i that --section selects.
NextSec(i) ==
  LET later == {j \in DOMAIN ReportOrder : j >= i /\ Selected(j)}
  IN  IF later = {} THEN Len(ReportOrder) + 1
      ELSE CHOOSE j \in later : \A k \in later : j <= k

\* psycopg2.connect(): on failure the message goes to stderr and sys.exit(1).
Connect ==
  /\ pc = "connect"
  /\ \E ok \in BOOLEAN :
       IF ok
       THEN /\ conn' = "open"
            /\ pc' = "dispatch"
            /\ UNCHANGED exitCode
       ELSE /\ exitCode' = 1
            /\ pc' = "done"
            /\ UNCHANGED conn
  /\ UNCHANGED <<entry, argv, args, cur, tx, exc, modes, db, txDel, call, ret,
                 issued, prompted, cleared, fs, loop, report, writes, db0,
                 delta, pt,
                 csv>>

\* Entering the with-block opens the cursor; the ifs pick the mode.
Dispatch ==
  /\ pc = "dispatch"
  /\ cur' = "open"
  /\ modes' = Append(modes, ModeOf(args))
  /\ CASE ModeOf(args) = "clear" ->
            /\ call' = NewCall("clear_table", args.clear_table, None, "main")
            /\ pc' = "clear_begin"
            /\ UNCHANGED report
       [] ModeOf(args) = "export-one" ->
            /\ call' = NewCall("export_table", args.export_table,
                               args.output_dir, "main")
            /\ pc' = "export_begin"
            /\ UNCHANGED report
       [] ModeOf(args) = "export-all" ->
            /\ pc' = "export_all_begin"
            /\ UNCHANGED <<call, report>>
       [] OTHER ->
            /\ report' = [report EXCEPT !.sec = NextSec(1), !.q = 1]
            /\ pc' = "report"
            /\ UNCHANGED call
  /\ UNCHANGED <<entry, argv, args, conn, tx, exc, db, txDel, ret, issued,
                 prompted, cleared, fs, loop, exitCode, writes, db0,
                 delta, pt,
                 csv>>

\* COMMIT; on a transaction marked aborted the engine rolls back instead.
Committed == IF tx = "aborted" THEN db ELSE [t \in Tables |-> db[t] - txDel[t]]

\* main() after clear_table returned: commit on success, then return.
ClearReturn ==
  /\ pc = "clear_return"
  /\ IF ret = "True"
     THEN /\ db' = Committed
          /\ txDel' = [t \in Tables |-> 0]
          /\ tx' = "idle"
     ELSE UNCHANGED <<db, txDel, tx>>
  /\ pc' = "exit_return"
  /\ UNCHANGED <<entry, argv, args, conn, cur, exc, modes, call, ret, issued,
                 prompted, cleared, fs, loop, report, exitCode, writes, db0,
                 delta, pt,
                 csv>>

\* Leaving "with conn, conn.cursor() as cur": the cursor is closed, then the
\* connection's __exit__ commits (rolls back on an exception) and leaves the
\* connection open. A return or an exception then leaves main().
WithExit ==
  /\ pc \in {"exit_return", "exit_fall", "exit_raise"}
  /\ cur' = "closed"
  /\ db' = IF pc = "exit_raise" THEN db ELSE Committed
  /\ txDel' = [t \in Tables |-> 0]
  /\ tx' = "idle"
  /\ pc' = IF pc = "exit_fall" THEN "close" ELSE "done"
  /\ exitCode' = CASE pc = "exit_raise" -> 1
                   [] pc = "exit_return" -> 0
                   [] OTHER -> exitCode
  /\ UNCHANGED <<entry, argv, args, conn, exc, modes, call, ret, issued,
                 prompted, cleared, fs, loop, report, writes, db0,
                 delta, pt,
                 csv>>

\* conn.close(), the statement after the with-block.
CloseConn ==
  /\ pc = "close"
  /\ conn' = "closed"
  /\ exitCode' = 0
  /\ pc' = "done"
  /\ UNCHANGED <<entry, argv, args, cur, tx, exc, modes, db, txDel, call, ret,
                 issued, prompted, cleared, fs, loop, report, writes, db0,
                 delta, pt,
                 csv>>

(* ---------------------------- clear_table ----------------------------- *)

\* Confirmed comparing without regard to case.
ConfirmedAnyCase(confirmation) == confirmation \in {"YES", "yes"}

\* The test that lets the DELETE go ahead.
Confirmed(confirmation) == confirmation = "YES"

\* AlreadyEmpty testing for a missing count instead of a count of 0.
AlreadyEmptyNegative(row_count) == row_count < 0

\* The test that ends clear_table before the prompt.
AlreadyEmpty(row_count) == row_count = 0

\* The whitelist test, then the row count; an empty table returns True.
ClearBegin ==
  /\ pc = "clear_begin"
  /\ IF call.table_name \notin Range(CLEARABLE_TABLES)
     THEN /\ Return("False")
          /\ UNCHANGED <<tx, exc, call, issued>>
     ELSE \E ok \in Outcomes :
            /\ issued' = Append(issued, <<"SELECT COUNT", call.table_name>>)
            /\ IF ~ok
               THEN /\ tx' = "aborted"
                    /\ Raise("DatabaseError")
                    /\ UNCHANGED <<call, ret>>
               ELSE /\ tx' = "active"
                    /\ call' = [call EXCEPT !.row_count = Visible(call.table_name)]
                    /\ IF AlreadyEmpty(Visible(call.table_name))
                       THEN Return("True") /\ UNCHANGED exc
                       ELSE pc' = "clear_prompt" /\ UNCHANGED <<ret, exc>>
  /\ UNCHANGED <<entry, argv, args, conn, cur, modes, db, txDel, prompted,
                 cleared, fs, loop, report, exitCode, writes, db0,
                 delta, pt,
                 csv>>

\* input(): end of input raises EOFError, which nothing catches.
ClearPrompt ==
  /\ pc = "clear_prompt"
  /\ prompted' = TRUE
  /\ \E confirmation \in Inputs :
       IF confirmation = "EOF"
       THEN Raise("EOFError") /\ UNCHANGED <<ret, call>>
       ELSE /\ call' = [call EXCEPT !.confirmation = confirmation]
            /\ IF ~Confirmed(confirmation)
               THEN Return("False") /\ UNCHANGED exc
               ELSE pc' = "clear_delete" /\ UNCHANGED <<ret, exc>>
  /\ UNCHANGED <<entry, argv, args, conn, cur, tx, modes, db, txDel,
                 issued, cleared, fs, loop, report, exitCode, writes, db0,
                 delta, pt,
                 csv>>

\* The number the success message prints.
ReportedCleared(row_count, removed) == row_count

\* DELETE FROM table: removes every row visible now; a failure is caught.
ClearDelete ==
  /\ pc = "clear_delete"
  /\ issued' = Append(issued, <<"DELETE", call.table_name>>)
  /\ \E ok \in Outcomes :
       IF ok
       THEN /\ txDel' = [txDel EXCEPT ![call.table_name] = db[call.table_name]]
            /\ cleared' = <<Visible(call.table_name),
                            ReportedCleared(call.row_count,
                                            Visible(call.table_name))>>
            /\ tx' = "active"
            /\ Return("True")
       ELSE /\ tx' = "aborted"
            /\ Return("False")
            /\ UNCHANGED <<txDel, cleared>>
  /\ UNCHANGED <<entry, argv, args, conn, cur, exc, modes, db, call, prompted,
                 fs, loop, report, exitCode, writes, db0,
                 delta, pt,
                 csv>>

(* ---------------------------- export_table ---------------------------- *)

\* ExportBegin with os.makedirs moved before the whitelist test.
ExportBeginMkdirFirst ==
  /\ pc = "export_begin"
  /\ IF call.output_dir = None
     THEN IF call.table_name \notin Range(EXPORTABLE_TABLES)
          THEN Return("False") /\ UNCHANGED <<exc, fs>>
          ELSE pc' = "export_run" /\ UNCHANGED <<ret, exc, fs>>
     ELSE \E ok \in BOOLEAN :
            IF ~ok
            THEN Raise("OSError") /\ UNCHANGED <<ret, fs>>
            ELSE /\ fs' = [fs EXCEPT !.dir = TRUE]
                 /\ IF call.table_name \notin Range(EXPORTABLE_TABLES)
                    THEN Return("False") /\ UNCHANGED exc
                    ELSE pc' = "export_run" /\ UNCHANGED <<ret, exc>>
  /\ UNCHANGED <<entry, argv, args, conn, cur, tx, modes, db, txDel, call,
                 issued, prompted, cleared, loop, report, exitCode, writes,
                 db0, delta, pt,
                 csv>>

\* The whitelist test, then os.makedirs when a directory was given (outside
\* the try block: an OSError leaves the function).
ExportBegin ==
  /\ pc = "export_begin"
  /\ IF call.table_name \notin Range(EXPORTABLE_TABLES)
     THEN /\ Return("False")
          /\ UNCHANGED <<exc, fs>>
     ELSE IF call.output_dir = None
     THEN /\ pc' = "export_run"
          /\ UNCHANGED <<ret, exc, fs>>
     ELSE \E ok \in BOOLEAN :
            IF ok
            THEN /\ fs' = [fs EXCEPT !.dir = TRUE]
                 /\ pc' = "export_run"
                 /\ UNCHANGED <<ret, exc>>
            ELSE /\ Raise("OSError")
                 /\ UNCHANGED <<ret, fs>>
  /\ UNCHANGED <<entry, argv, args, conn, cur, tx, modes, db, txDel, call,
                 issued, prompted, cleared, loop, report, exitCode, writes, db0,
                 delta, pt,
                 csv>>

\* The try block: SELECT *, nothing written for an empty result, otherwise
\* the header and one line per row; any exception is caught and gives False.
ExportRun ==
  /\ pc = "export_run"
  /\ issued' = Append(issued, <<"SELECT *", call.table_name>>)
  /\ \E ok \in Outcomes, opened \in BOOLEAN :
       IF ~ok
       THEN /\ tx' = "aborted"
            /\ Return("False")
            /\ UNCHANGED <<call, fs>>
       ELSE /\ tx' = "active"
            /\ call' = [call EXCEPT !.row_count = Visible(call.table_name)]
            /\ IF Visible(call.table_name) = 0
               THEN /\ Return("True")
                    /\ UNCHANGED fs
               ELSE IF opened
               THEN /\ fs' = [fs EXCEPT !.rows[call.table_name] =
                                           Visible(call.table_name)]
                    /\ Return("True")
               ELSE /\ Return("False")
                    /\ UNCHANGED fs
  /\ UNCHANGED <<entry, argv, args, conn, cur, exc, modes, db, txDel,
                 prompted, cleared, loop, report, exitCode, writes, db0,
                 delta, pt,
                 csv>>

(* -------------------------- export_all_tables ------------------------- *)

\* The output directory (a timestamped one when none was given) is made.
ExportAllBegin ==
  /\ pc = "export_all_begin"
  /\ \E ok \in BOOLEAN :
       IF ok
       THEN /\ fs' = [fs EXCEPT !.dir = TRUE]
            /\ loop' = [loop EXCEPT !.i = 1]
            /\ pc' = "export_all_loop"
            /\ UNCHANGED exc
       ELSE /\ Raise("OSError")
            /\ UNCHANGED <<fs, loop>>
  /\ UNCHANGED <<entry, argv, args, conn, cur, tx, modes, db, txDel, call,
                 ret, issued, prompted, cleared, report, exitCode, writes, db0,
                 delta, pt,
                 csv>>

\* The for loop: the next table is exported; after the last one the summary
\* is printed and main() returns.
ExportAllLoop ==
  /\ pc = "export_all_loop"
  /\ IF loop.i <= Len(EXPORTABLE_TABLES)
     THEN /\ call' = NewCall("export_table", EXPORTABLE_TABLES[loop.i],
                             IF args.output_dir = None THEN "db_export"
                             ELSE args.output_dir,
                             "export_all")
          /\ pc' = "export_begin"
          /\ UNCHANGED <<loop, ret>>
     ELSE /\ loop' = [loop EXCEPT
                        !.summary = <<loop.success_count, loop.total_rows>>]
          /\ ret' = IF loop.success_count = Len(EXPORTABLE_TABLES)
                    THEN "True" ELSE "False"
          /\ pc' = "exit_return"
          /\ UNCHANGED call
  /\ UNCHANGED <<entry, argv, args, conn, cur, tx, exc, modes, db, txDel,
                 issued, prompted, cleared, fs, report, exitCode, writes, db0,
                 delta, pt,
                 csv>>

\* After a successful export the table's rows are counted for the summary.
ExportAllCount ==
  /\ pc = "export_all_count"
  /\ IF ret = "True"
     THEN \E ok \in Outcomes :
            /\ issued' = Append(issued, <<"SELECT COUNT", call.table_name>>)
            /\ IF ok
               THEN /\ loop' = [loop EXCEPT
                                  !.i = @ + 1,
                                  !.results = Append(@, ret),
                                  !.success_count = @ + 1,
                                  !.total_rows = @ + Visible(call.table_name)]
                    /\ tx' = "active"
                    /\ pc' = "export_all_loop"
                    /\ UNCHANGED exc
               ELSE /\ tx' = "aborted"
                    /\ Raise("DatabaseError")
                    /\ loop' = [loop EXCEPT !.results = Append(@, ret)]
     ELSE /\ loop' = [loop EXCEPT !.i = @ + 1, !.results = Append(@, ret)]
          /\ pc' = "export_all_loop"
          /\ UNCHANGED <<tx, exc, issued>>
  /\ UNCHANGED <<entry, argv, args, conn, cur, modes, db, txDel, call, ret,
                 prompted, cleared, fs, report, exitCode, writes, db0,
                 delta, pt,
                 csv>>

(* --------------------------- report sections -------------------------- *)

\* Whether the duration block follows the query just run.
DurationNext ==
  /\ ReportOrder[report.sec] = "participants"
  /\ report.q = PlainQueries.participants

\* rows, hdr = q(cur, ...); print_table(...): outside any try block.
ReportQuery ==
  /\ pc = "report"
  /\ report.q <= PlainQueries[ReportOrder[report.sec]]
  /\ issued' = Append(issued, <<"SELECT", ReportOrder[report.sec]>>)
  /\ \E ok \in Outcomes :
       IF ~ok
       THEN /\ tx' = "aborted"
            /\ Raise("DatabaseError")
            /\ UNCHANGED report
       ELSE /\ tx' = "active"
            /\ UNCHANGED exc
            /\ IF DurationNext \/ report.q < PlainQueries[ReportOrder[report.sec]]
               THEN /\ report' = [report EXCEPT !.q = @ + 1,
                                                !.printed[report.sec] = @ + 1]
                    /\ pc' = "report"
               ELSE LET n == NextSec(report.sec + 1)
                    IN  /\ report' = [report EXCEPT
                                        !.sec = n, !.q = 1,
                                        !.printed[report.sec] = @ + 1]
                        /\ pc' = IF n > Len(ReportOrder) THEN "exit_fall"
                                 ELSE "report"
  /\ UNCHANGED <<entry, argv, args, conn, cur, modes, db, txDel, call, ret,
                 prompted, cleared, fs, loop, exitCode, writes, db0,
                 delta, pt,
                 csv>>

\* The try block of participants_section: the duration statistics (the casts
\* to timestamptz may fail), then the median; except Exception prints the
\* skipped notice and the section ends.
DurationStats ==
  /\ pc = "report"
  /\ ReportOrder[report.sec] = "participants"
  /\ report.q = PlainQueries.participants + 1
  /\ issued' = Append(issued, <<"SELECT", "duration">>)
  /\ \E ok \in Outcomes :
       IF ok
       THEN /\ tx' = "active"
            /\ report' = [report EXCEPT !.q = @ + 1,
                                        !.printed[report.sec] = @ + 1]
            /\ pc' = "report"
       ELSE /\ tx' = "aborted"
            /\ LET n == NextSec(report.sec + 1)
               IN  /\ report' = [report EXCEPT !.sec = n, !.q = 1,
                                               !.notice = TRUE,
                                               !.failed = "duration"]
                   /\ pc' = IF n > Len(ReportOrder) THEN "exit_fall"
                            ELSE "report"
  /\ UNCHANGED <<entry, argv, args, conn, cur, exc, modes, db, txDel, call,
                 ret, prompted, cleared, fs, loop, exitCode, writes, db0,
                 delta, pt,
                 csv>>

MedianDuration ==
  /\ pc = "report"
  /\ ReportOrder[report.sec] = "participants"
  /\ report.q = PlainQueries.participants + 2
  /\ issued' = Append(issued, <<"SELECT", "median">>)
  /\ \E ok \in Outcomes :
       LET n == NextSec(report.sec + 1)
       IN  /\ tx' = IF ok THEN "active" ELSE "aborted"
           /\ report' = [report EXCEPT
                           !.sec = n, !.q = 1, !.median = ok, !.notice = ~ok,
                           !.failed = IF ok THEN "none" ELSE "median"]
           /\ pc' = IF n > Len(ReportOrder) THEN "exit_fall" ELSE "report"
  /\ UNCHANGED <<entry, argv, args, conn, cur, exc, modes, db, txDel, call,
                 ret, prompted, cleared, fs, loop, exitCode, writes, db0,
                 delta, pt,
                 csv>>

(* ------------------------- the other clients -------------------------- *)

\* Another client of the database commits an INSERT or a DELETE of one row
\* of a table the run reads while the program holds its connection; it
\* cannot delete a row the program's open transaction has deleted (the row
\* is locked).
Writer ==
  /\ conn = "open"
  /\ pc # "done"
  /\ writes < MaxWrites
  /\ writes' = writes + 1
  /\ \E t \in ReadTables :
       \/ /\ db[t] < MaxRows
          /\ db' = [db EXCEPT ![t] = @ + 1]
          /\ delta' = [delta EXCEPT ![t] = @ + 1]
       \/ /\ Visible(t) > 0
          /\ db' = [db EXCEPT ![t] = @ - 1]
          /\ delta' = [delta EXCEPT ![t] = @ - 1]
  /\ UNCHANGED <<entry, argv, args, pc, conn, cur, tx, exc, modes, txDel,
                 call, ret, issued, prompted, cleared, fs, loop, report,
                 exitCode, db0, pt,
                 csv>>

(* ------------------------------- values ------------------------------- *)

\* Text is a sequence of characters; LF is the line break, CR the carriage
\* return.
LF == "\n"

CR == "\r"

\* The values a result row holds: None, an integer, text, a datetime (a time
\* of day, in seconds, on the day DateText).
PyNone == [k |-> "none", n |-> 0, s |-> <<>>]

PyInt(n) == [k |-> "int", n |-> n, s |-> <<>>]

PyText(s) == [k |-> "str", n |-> 0, s |-> s]

PyDatetime(secs) == [k |-> "datetime", n |-> secs, s |-> <<>>]

DateText == <<"2", "0", "2", "5", "-", "0", "1", "-", "0", "2">>

DigitChar(d) == <<"0", "1", "2", "3", "4", "5", "6", "7", "8", "9">>[d + 1]

RECURSIVE Digits(_)
Digits(n) ==
  IF n < 10 THEN <<DigitChar(n)>>
  ELSE Digits(n \div 10) \o <<DigitChar(n % 10)>>

\* %02d
Pad2(n) == <<DigitChar(n \div 10), DigitChar(n % 10)>>

\* HH:MM:SS of a time of day.
TimeText(secs) ==
  Pad2(secs \div 3600) \o <<":">> \o Pad2((secs \div 60) % 60) \o <<":">>
    \o Pad2(secs % 60)

\* str(value)
PyStr(v) ==
  CASE v.k = "none" -> <<"N", "o", "n", "e">>
    [] v.k = "int" -> Digits(v.n)
    [] v.k = "datetime" -> DateText \o <<" ">> \o TimeText(v.n)
    [] OTHER -> v.s

\* One print() call: the text and a line break.
Line(text) == text \o <<LF>>

RECURSIVE Join(_, _)
\* sep.join(parts)
Join(parts, sep) ==
  IF parts = <<>> THEN <<>>
  ELSE IF Len(parts) = 1 THEN parts[1]
  ELSE parts[1] \o sep \o Join(Tail(parts), sep)

RECURSIVE Concat(_)
Concat(parts) ==
  IF parts = <<>> THEN <<>> ELSE parts[1] \o Concat(Tail(parts))

\* The positions of character c in a text.
Positions(text, c) == {i \in DOMAIN text : text[i] = c}

Repeat(c, n) == [i \in 1..n |-> c]

MaxOf(S) == CHOOSE x \in S : \A y \in S : y <= x

\* The k-th smallest element of a set of numbers.
Nth(S, k) == CHOOSE i \in S : Cardinality({j \in S : j <= i}) = k

(* ---------------------------- print_table ----------------------------- *)

\* ljust padding on the left (str.rjust) instead of on the right.
rjust(text, w) ==
  IF Len(text) >= w THEN text ELSE Repeat(" ", w - Len(text)) \o text

\* str.ljust(w)
ljust(text, w) ==
  IF Len(text) >= w THEN text ELSE text \o Repeat(" ", w - Len(text))

widths(rows, headers) ==
  [i \in DOMAIN headers |->
     MaxOf({Len(PyStr(headers[i]))}
             \cup {Len(PyStr(rows[r][i])) : r \in DOMAIN rows})]

fmt_row(row, w) ==
  Join([i \in DOMAIN row |-> ljust(PyStr(row[i]), w[i])], <<" ", "|", " ">>)

\* Everything print_table(title, rows, headers) writes to the console.
print_table(title, rows, headers) ==
  LET head == Line(<<LF, "=", "=", "=", " ">> \o title \o <<" ", "=", "=", "=">>)
      w == widths(rows, headers)
  IN  IF rows = <<>>
      THEN head \o Line(<<"(", "n", "o", " ", "r", "o", "w", "s", ")">>)
      ELSE head
             \o Line(fmt_row(headers, w))
             \o Line(Join([i \in DOMAIN w |-> Repeat("-", w[i])],
                          <<"-", "+", "-">>))
             \o Concat([r \in DOMAIN rows |-> Line(fmt_row(rows[r], w))])

\* The values and column names print_table is tried on.
PrintCells == {PyNone, PyInt(7), PyInt(12), PyText(<<"a", LF, "b">>)}

PrintHeaders == {PyText(<<"n">>), PyText(<<"t", "o", "t", "a", "l">>)}

ColumnCounts == {1, 2}

InitPrint ==
  /\ entry = "print_table"
  /\ argv = NoArgv
  /\ args = ParseArgs(argv)
  /\ pc = "print_table"
  /\ conn = "none"
  /\ cur = "none"
  /\ call = NoCall
  /\ InitRun
  /\ csv = NoExport
  /\ \E c \in ColumnCounts, n \in 0..MaxPrintRows :
       \E headers \in [1..c -> PrintHeaders],
          rows \in [1..n -> [1..c -> PrintCells]] :
         pt = [title |-> <<"T">>, rows |-> rows, headers |-> headers,
               out |-> <<>>, called |-> FALSE]

PrintTable ==
  /\ pc = "print_table"
  /\ ~pt.called
  /\ pt' = [pt EXCEPT !.out = print_table(pt.title, pt.rows, pt.headers),
                      !.called = TRUE]
  /\ pc' = "done"
  /\ UNCHANGED <<entry, argv, args, conn, cur, tx, exc, modes, db, txDel,
                 call, ret, issued, prompted, cleared, fs, loop, report,
                 exitCode, writes, db0, delta, csv>>

NextPrint == PrintTable

SpecPrint == InitPrint /\ [][NextPrint]_vars

(* ------------------- export_table: the CSV file ----------------------- *)

\* value.isoformat() of a datetime without microseconds and time zone.
isoformat(v) == DateText \o <<"T">> \o TimeText(v.n)

\* csv_cell without the tests for None and datetime.
csv_cell_str(value) == PyStr(value)

\* The text export_table appends to csv_row for a value.
csv_cell(value) ==
  IF value.k = "none" THEN <<>>
  ELSE IF value.k = "datetime" THEN isoformat(value)
  ELSE PyStr(value)

csv_row(row) == [i \in DOMAIN row |-> csv_cell(row[i])]

\* csv.writer (excel dialect, QUOTE_MINIMAL): a field holding the delimiter,
\* the quote character or a line terminator character is quoted, its quote
\* characters doubled.
NeedsQuote(field) == \E i \in DOMAIN field : field[i] \in {",", "\"", CR, LF}

RECURSIVE Doubled(_)
Doubled(field) ==
  IF field = <<>> THEN <<>>
  ELSE IF Head(field) = "\"" THEN <<"\"", "\"">> \o Doubled(Tail(field))
  ELSE <<Head(field)>> \o Doubled(Tail(field))

\* writer.writerow(fields): a lone empty field is written as "".
writerow(fields) ==
  IF fields = <<<<>>>> THEN <<"\"", "\"", CR, LF>>
  ELSE Join([i \in DOMAIN fields |->
               IF NeedsQuote(fields[i])
               THEN <<"\"">> \o Doubled(fields[i]) \o <<"\"">>
               ELSE fields[i]],
            <<",">>) \o <<CR, LF>>

\* What the with-block writes: the header line, then a line per row.
ExportFile(rows, headers) ==
  writerow([i \in DOMAIN headers |-> PyStr(headers[i])])
    \o Concat([r \in DOMAIN rows |-> writerow(csv_row(rows[r]))])

\* The values and column names the export is tried on.
ExportCells ==
  {PyNone, PyInt(12), PyDatetime(3725), PyText(<<"a", ",", "\"">>),
   PyText(<<"b", LF>>)}

ExportHeaders == <<PyText(<<"i", "d">>), PyText(<<"a", "t">>)>>

InitExport ==
  /\ entry = "export_csv"
  /\ argv = NoArgv
  /\ args = ParseArgs(argv)
  /\ pc = "export_csv"
  /\ conn = "open"
  /\ cur = "open"
  /\ call = NoCall
  /\ InitRun
  /\ pt = NoPrint
  /\ \E c \in ColumnCounts, n \in 0..MaxExportRows :
       \E rows \in [1..n -> [1..c -> ExportCells]] :
         csv = [NoExport EXCEPT !.headers = SubSeq(ExportHeaders, 1, c),
                                !.rows = rows]

\* The try block of export_table on the rows the SELECT * returned: nothing
\* is written for an empty result; open() may fail, which is caught.
ExportCsv ==
  /\ pc = "export_csv"
  /\ \E opened \in BOOLEAN :
       csv' = IF csv.rows = <<>> THEN [csv EXCEPT !.ret = "True"]
              ELSE IF ~opened THEN [csv EXCEPT !.ret = "False"]
              ELSE [csv EXCEPT !.file = ExportFile(csv.rows, csv.headers),
                               !.written = TRUE,
                               !.ret = "True"]
  /\ pc' = "read_csv"
  /\ UNCHANGED <<entry, argv, args, conn, cur, tx, exc, modes, db, txDel,
                 call, ret, issued, prompted, cleared, fs, loop, report,
                 exitCode, writes, db0, delta, pt>>

(* --------------------- csv.reader on the written file ------------------ *)

\* End of a line handed to the parser.
EOL == "EOL"

\* The positions a line of the file ends at: an LF, a CR that no LF follows,
\* the last character (a file opened with newline='' is split so).
LineEnds(text) ==
  {i \in DOMAIN text :
     \/ text[i] = LF
     \/ text[i] = CR /\ (i = Len(text) \/ text[i + 1] # LF)
     \/ i = Len(text)}

\* The lines the file object hands to the reader, line ends kept.
FileLines(text) ==
  [k \in 1..Cardinality(LineEnds(text)) |->
     SubSeq(text,
            IF k = 1 THEN 1 ELSE Nth(LineEnds(text), k - 1) + 1,
            Nth(LineEnds(text), k))]

ReaderStart ==
  [state |-> "START_RECORD", field |-> <<>>, fields |-> <<>>, records |-> <<>>]

\* One step of the reader's state machine (excel dialect, not strict).
ReaderStep(st, c) ==
  LET ends == c \in {CR, LF, EOL}
      after == IF c = EOL THEN "START_RECORD" ELSE "EAT_CRNL"
      saved(next) == [st EXCEPT !.fields = Append(@, st.field),
                                !.field = <<>>, !.state = next]
      added(next) == [st EXCEPT !.field = Append(@, c), !.state = next]
      startField ==
        IF ends THEN saved(after)
        ELSE IF c = "\"" THEN [st EXCEPT !.state = "IN_QUOTED_FIELD"]
        ELSE IF c = "," THEN saved("START_FIELD")
        ELSE added("IN_FIELD")
  IN  CASE st.state = "START_RECORD" ->
             IF c = EOL THEN st
             ELSE IF ends THEN [st EXCEPT !.state = "EAT_CRNL"]
             ELSE startField
        [] st.state = "START_FIELD" -> startField
        [] st.state = "IN_FIELD" ->
             IF ends THEN saved(after)
             ELSE IF c = "," THEN saved("START_FIELD")
             ELSE added("IN_FIELD")
        [] st.state = "IN_QUOTED_FIELD" ->
             IF c = EOL THEN st
             ELSE IF c = "\"" THEN [st EXCEPT !.state = "QUOTE_IN_QUOTED_FIELD"]
             ELSE added("IN_QUOTED_FIELD")
        [] st.state = "QUOTE_IN_QUOTED_FIELD" ->
             IF c = "\"" THEN added("IN_QUOTED_FIELD")
             ELSE IF c = "," THEN saved("START_FIELD")
             ELSE IF ends THEN saved(after)
             ELSE added("IN_FIELD")
        [] st.state = "EAT_CRNL" ->
             IF c \in {CR, LF} THEN st
             ELSE IF c = EOL THEN [st EXCEPT !.state = "START_RECORD"]
             ELSE [st EXCEPT !.state = "ERROR"]
        [] OTHER -> st

\* After a line: a record is complete when the parser is back at the start.
ReaderEmit(st, c) ==
  IF c = EOL /\ st.state = "START_RECORD"
  THEN [st EXCEPT !.records = Append(@, st.fields), !.fields = <<>>]
  ELSE st

\* The parser is fed the characters of a line.
RECURSIVE ReaderFeed(_, _)
ReaderFeed(st, chars) ==
  IF chars = <<>> \/ st.state = "ERROR" THEN st
  ELSE LET next == ReaderStep(st, Head(chars))
       IN  IF next.state = "ERROR" THEN next
           ELSE ReaderFeed(next, Tail(chars))

\* Reader.__next__ line by line: a line's characters, then EOL; at the end
\* of the file a field that was begun is kept.
RECURSIVE ReaderLines(_, _)
ReaderLines(st, lines) ==
  IF st.state = "ERROR" THEN <<"Error">>
  ELSE IF lines = <<>>
  THEN IF st.field # <<>> \/ st.state = "IN_QUOTED_FIELD"
       THEN Append(st.records, Append(st.fields, st.field))
       ELSE st.records
  ELSE LET fed == ReaderFeed(st, Head(lines))
           next == ReaderEmit(ReaderStep(fed, EOL), EOL)
       IN  IF fed.state = "ERROR" THEN <<"Error">>
           ELSE ReaderLines(next, Tail(lines))

\* list(csv.reader(f)) of a file opened with newline=''.
ReadRecords(text) == ReaderLines(ReaderStart, FileLines(text))

\* The exported file is parsed.
ReadCsv ==
  /\ pc = "read_csv"
  /\ csv.written
  /\ csv' = [csv EXCEPT !.parsed = ReadRecords(csv.file), !.read = TRUE]
  /\ pc' = "done"
  /\ UNCHANGED <<entry, argv, args, conn, cur, tx, exc, modes, db, txDel,
                 call, ret, issued, prompted, cleared, fs, loop, report,
                 exitCode, writes, db0, delta, pt>>

NextExport == ExportCsv \/ ReadCsv

SpecExport == InitExport /\ [][NextExport]_vars

(* ---------------------------- specification --------------------------- *)

Next ==
  \/ Connect
  \/ Dispatch
  \/ ClearBegin
  \/ ClearPrompt
  \/ ClearDelete
  \/ ClearReturn
  \/ ExportBegin
  \/ ExportRun
  \/ ExportAllBegin
  \/ ExportAllLoop
  \/ ExportAllCount
  \/ ReportQuery
  \/ DurationStats
  \/ MedianDuration
  \/ WithExit
  \/ CloseConn
  \/ Writer

Spec == Init /\ [][Next]_vars

(* ------------------------------ properties ---------------------------- *)

\* A run of main() that got its connection and has finished.
MainDone == entry = "main" /\ pc = "done" /\ conn # "none"

\* The statements of kind k in the cursor's log.
Issued(k) == {i \in DOMAIN issued : issued[i][1] = k}

\* What each mode leaves behind: the locals of the other modes are untouched.
OnlyModeRan(m) ==
  /\ m = "clear" => call.fn = "clear_table" /\ loop = NoLoop /\ report = NoReport
  /\ m = "export-one" =>
       call.fn = "export_table" /\ loop = NoLoop /\ report = NoReport
  /\ m = "export-all" =>
       /\ call = NoCall \/ (call.fn = "export_table" /\ call.caller = "export_all")
       /\ report = NoReport
       /\ Issued("DELETE") = {}
  /\ m = "reporting" => call = NoCall /\ loop = NoLoop /\ report # NoReport

\* The first requested mode in the order reporting, clear, export-one,
\* export-all: reporting is requested by --section, and is what runs when
\* nothing is requested.
ClaimedMode(av) ==
  IF av.section # None THEN "reporting"
  ELSE IF av.clear_table # None THEN "clear"
  ELSE IF av.export_table # None THEN "export-one"
  ELSE IF av.export_all THEN "export-all"
  ELSE "reporting"

\* C1 as stated: when main() has finished a run whose connection succeeded,
\* the one mode that ran is the first requested one in the order reporting,
\* clear, export-one, export-all.
C1_ModeInClaimedOrder ==
  MainDone => modes = <<ClaimedMode(argv)>>

\* The first requested mode in the order clear, export-one, export-all, and
\* reporting when none of the three is requested.
FirstRequested(av) ==
  IF av.clear_table # None THEN "clear"
  ELSE IF av.export_table # None THEN "export-one"
  ELSE IF av.export_all THEN "export-all"
  ELSE "reporting"

\* C1, amended: in every run of main() whose connection succeeds exactly one
\* mode is entered, and it is the first requested one in the order clear,
\* export-one, export-all; reporting runs only when none of these three is
\* requested, whether or not --section is given. No mode is entered twice and
\* none before the dispatch.
C1_ModeInCodeOrder ==
  /\ Len(modes) <= 1
  /\ entry = "main" /\ pc \notin {"connect", "dispatch"} /\ conn # "none" =>
       /\ modes = <<FirstRequested(argv)>>
       /\ OnlyModeRan(modes[1])
  /\ pc \in {"connect", "dispatch"} \/ conn = "none" => modes = <<>>

\* C1's case: --section, --clear-table, --export-table and --export-all are
\* all given, and the run that finished was the clear.
C1_Witness ==
  /\ MainDone
  /\ argv.section # None /\ argv.clear_table # None
  /\ argv.export_table # None /\ argv.export_all
  /\ modes = <<"clear">>
  /\ ret = "True"

\* C2: once the connection succeeded, the run ends with exit code 0 and no
\* uncaught exception, whatever fails later.
C2_ExitZeroAfterConnect ==
  MainDone => exitCode = 0 /\ exc = "none"

\* C3: once the connection was acquired, the cursor and the connection are
\* both closed when main() finishes, on every path.
C3_ClosedOnEveryPath ==
  MainDone => cur = "closed" /\ conn = "closed"

\* C4: a table name outside CLEARABLE_TABLES makes clear_table issue no
\* statement, not prompt, and return False; a table name outside
\* EXPORTABLE_TABLES makes export_table issue no SELECT, create no directory
\* or file, and return False.
C4_RejectedWithoutEffect ==
  /\ call.fn = "clear_table" /\ call.table_name \notin Range(CLEARABLE_TABLES) =>
       /\ issued = <<>> /\ ~prompted /\ cleared = <<>> /\ exc = "none"
       /\ pc # "clear_begin" => pc = "done" /\ ret = "False"
  /\ call.fn = "export_table" /\ call.table_name \notin Range(EXPORTABLE_TABLES) =>
       /\ issued = <<>> /\ fs = NoFiles /\ exc = "none"
       /\ pc # "export_begin" => pc = "done" /\ ret = "False"

\* C4's case: export_table returned for a name outside the whitelist although
\* an output directory was given.
C4_Witness ==
  /\ call.fn = "export_table"
  /\ call.table_name \notin Range(EXPORTABLE_TABLES)
  /\ call.output_dir # None
  /\ pc = "done"
  /\ ret = "False"

\* A clear_table call whose prompt was answered with text other than 'YES'.
Cancelled ==
  /\ call.fn = "clear_table"
  /\ prompted
  /\ call.confirmation \in Inputs \ {"YES", "EOF"}

\* C5: when the text typed at the prompt of clear_table (whitelisted,
\* non-empty table) is not exactly 'YES', no DELETE is issued, clear_table
\* returns False, and when main() has finished the table holds the rows it
\* held before the call (give or take what the other client wrote).
C5_CancelLeavesRows ==
  Cancelled =>
    /\ call.row_count > 0
    /\ Issued("DELETE") = {}
    /\ ret = "False"
    /\ txDel[call.table_name] = 0
    /\ db[call.table_name] = db0[call.table_name] + delta[call.table_name]
    /\ pc \in {"clear_return", "exit_return", "done"}
    /\ exc = "none"

\* C5's case: main() has finished a clear that was answered 'yes'.
C5_Witness ==
  /\ MainDone
  /\ Cancelled
  /\ call.confirmation = "yes"
  /\ db[call.table_name] = db0[call.table_name]
  /\ db[call.table_name] > 0

\* A clear_table call on a whitelisted table whose count query returned 0.
CountedZero ==
  /\ call.fn = "clear_table"
  /\ call.table_name \in Range(CLEARABLE_TABLES)
  /\ call.row_count = 0

\* C6: clear_table on a whitelisted table whose row count is 0 never calls
\* the prompt, issues no DELETE, and returns True.
C6_EmptyNeedsNoPrompt ==
  CountedZero =>
    /\ ~prompted
    /\ Issued("DELETE") = {}
    /\ ret = "True"
    /\ issued = <<<<"SELECT COUNT", call.table_name>>>>

\* C6's case: clear_table returned for an empty whitelisted table.
C6_Witness ==
  /\ CountedZero
  /\ pc = "done"
  /\ db0[call.table_name] = 0

\* C7: after a confirmed, successful DELETE every row of the table is gone
\* and the number in the success message is the number of rows the DELETE
\* removed, also when another client wrote to the table after the count.
C7_ReportedIsRemoved ==
  cleared # <<>> =>
    /\ Visible(call.table_name) = 0 \/ delta[call.table_name] # 0
    /\ cleared[2] = cleared[1]

\* The tables each section that follows participants prints when all its
\* queries run.
LaterSectionsPrinted ==
  \A i \in DOMAIN ReportOrder :
    ReportOrder[i] # "participants" =>
      report.printed[i] = PlainQueries[ReportOrder[i]]

\* C8: in a reporting run of section 'all' whose duration-statistics query
\* failed, the notice is printed, the submissions, feedback and events
\* sections run all their queries and print their tables, and the run ends
\* normally.
C8_LaterSectionsRun ==
  MainDone /\ args.section = "all" /\ report.failed = "duration" =>
    /\ report.notice
    /\ LaterSectionsPrinted
    /\ exc = "none"
    /\ exitCode = 0

\* The lines of a printed text (every print() ends its line with LF).
PrintedLines(text) ==
  [k \in 1..Cardinality(Positions(text, LF)) |->
     SubSeq(text,
            IF k = 1 THEN 1 ELSE Nth(Positions(text, LF), k - 1) + 1,
            Nth(Positions(text, LF), k) - 1)]

\* The lines print_table printed after the blank line and the title line.
TableLines == SubSeq(PrintedLines(pt.out), 3, Len(PrintedLines(pt.out)))

\* The longest text among column j's header and values.
ColumnWidth(j) ==
  MaxOf({Len(PyStr(pt.headers[j]))}
          \cup {Len(PyStr(pt.rows[r][j])) : r \in DOMAIN pt.rows})

\* Where column j starts in a line: the widths before it and a separator each.
RECURSIVE Offset(_)
Offset(j) == IF j = 1 THEN 0 ELSE Offset(j - 1) + ColumnWidth(j - 1) + 3

\* The line shows the row's values in order, each followed by spaces up to
\* its column's width, with " | " between columns.
RowShown(line, row) ==
  /\ Len(line) = Offset(Len(row)) + ColumnWidth(Len(row))
  /\ \A j \in DOMAIN row :
       LET text == PyStr(row[j])
           at == Offset(j)
       IN  /\ SubSeq(line, at + 1, at + Len(text)) = text
           /\ \A i \in (at + Len(text) + 1)..(at + ColumnWidth(j)) : line[i] = " "
           /\ j < Len(row) =>
                SubSeq(line, at + ColumnWidth(j) + 1, at + ColumnWidth(j) + 3)
                  = <<" ", "|", " ">>

\* The N+2 lines of C9: the header line, a separator line, the rows in order.
TableShown ==
  /\ Len(TableLines) = Len(pt.rows) + 2
  /\ RowShown(TableLines[1], pt.headers)
  /\ Len(TableLines[2]) = Len(TableLines[1])
  /\ \A r \in DOMAIN pt.rows : RowShown(TableLines[r + 2], pt.rows[r])

\* No header and no value has a line break in its text.
NoLineBreaks ==
  \A j \in DOMAIN pt.headers :
    /\ \A i \in DOMAIN PyStr(pt.headers[j]) : PyStr(pt.headers[j])[i] # LF
    /\ \A r \in DOMAIN pt.rows :
         \A i \in DOMAIN PyStr(pt.rows[r][j]) : PyStr(pt.rows[r][j])[i] # LF

\* C9 as stated: for every N >= 0, print_table prints exactly N+2 lines after
\* the title line (header, separator, the N rows in input order) with every
\* column padded to the longest text among its header and values.
C9_AlwaysHeaderSeparatorRows ==
  pt.called => TableShown

\* C9, amended: for every N >= 1 and texts without line breaks, print_table
\* prints exactly N+2 lines after the title line (header, separator, the N
\* rows in input order) with every column padded to the longest text among
\* its header and values; for N = 0 it prints the one line "(no rows)".
C9_HeaderSeparatorRows ==
  pt.called =>
    /\ Len(pt.rows) >= 1 /\ NoLineBreaks => TableShown
    /\ Len(pt.rows) = 0 =>
         TableLines = <<<<"(", "n", "o", " ", "r", "o", "w", "s", ")">>>>

\* C9's case: a table of two columns and two rows whose values are shorter
\* than one header and longer than the other was printed.
C9_Witness ==
  /\ pt.called
  /\ Len(pt.rows) = 2
  /\ Len(pt.headers) = 2
  /\ NoLineBreaks
  /\ \E r \in DOMAIN pt.rows : Len(PyStr(pt.rows[r][1])) < Len(PyStr(pt.headers[1]))
  /\ \E r \in DOMAIN pt.rows : Len(PyStr(pt.rows[r][2])) > Len(PyStr(pt.headers[2]))

\* The text C10 expects in the file for a value: '' for None, the ISO form
\* (date, 'T', time) for a datetime, str(value) for anything else.
Normalized(v) ==
  CASE v.k = "none" -> <<>>
    [] v.k = "datetime" -> DateText \o <<"T">> \o TimeText(v.n)
    [] OTHER -> PyStr(v)

\* The records C10 expects: the column names, then every row in order.
ExpectedRecords ==
  <<[i \in DOMAIN csv.headers |-> csv.headers[i].s]>>
    \o [r \in DOMAIN csv.rows |->
          [i \in DOMAIN csv.rows[r] |-> Normalized(csv.rows[r][i])]]

\* C10 as stated: for every table, an empty one included, after export_table
\* returned True the CSV file at the table's path parses to the header row
\* and one data row per row of the SELECT *, each cell the normalized value.
C10_RoundTripAlways ==
  csv.ret = "True" =>
    /\ csv.written
    /\ csv.read => csv.parsed = ExpectedRecords

\* C10, amended: for every whitelisted table that is not empty, after
\* export_table returned True the CSV file at the table's path parses to the
\* header row and one data row per row of the SELECT *, in order, each cell
\* the normalized value; for an empty table export_table returns True and
\* writes no file.
C10_RoundTripNonEmpty ==
  csv.ret = "True" =>
    /\ csv.rows # <<>> => csv.written
    /\ csv.rows = <<>> => ~csv.written
    /\ csv.read => csv.parsed = ExpectedRecords

\* C10's case: a file of two rows holding None, a datetime, text with a comma
\* and a quote, and text with a line break was written and parsed back.
C10_Witness ==
  /\ csv.ret = "True"
  /\ csv.read
  /\ Len(csv.rows) = 2
  /\ Len(csv.headers) = 2
  /\ csv.rows[1][1] = PyNone
  /\ csv.rows[1][2] = PyDatetime(3725)
  /\ csv.rows[2][1] = PyText(<<"a", ",", "\"">>)
  /\ csv.rows[2][2] = PyText(<<"b", LF>>)
  /\ Len(csv.parsed) = 3

(* -------------------------- C11: export summary ----------------------- *)

\* main() has ended after export_all_tables made its output directory.
ExportAllRan == MainDone /\ modes = <<"export-all">> /\ loop.i >= 1

\* The tables export_table selected from, in the order of the statements.
SelectedTables ==
  LET sel == SelectSeq(issued, LAMBDA st : st[1] = "SELECT *")
  IN  [i \in DOMAIN sel |-> sel[i][2]]

\* The positions of EXPORTABLE_TABLES whose export_table call returned True.
Succeeded == {i \in DOMAIN loop.results : loop.results[i] = "True"}

\* The data rows in the CSV file of table t (none when no file exists).
DataRows(t) == IF fs.rows[t] < 0 THEN 0 ELSE fs.rows[t]

RECURSIVE WrittenRows(_)
\* The data rows in the files of the tables at the positions S.
WrittenRows(S) ==
  IF S = {} THEN 0
  ELSE LET i == CHOOSE j \in S : TRUE
       IN  DataRows(EXPORTABLE_TABLES[i]) + WrittenRows(S \ {i})

\* C11: export_all_tables attempts every table of EXPORTABLE_TABLES exactly
\* once in list order, the printed succeeded count is the number of tables
\* whose export_table returned True, the printed total row count is the sum
\* of the data rows written to the CSV files of those tables, and the
\* function returns True exactly when every table succeeded.
C11_ExportAllSummary ==
  ExportAllRan =>
    /\ SelectedTables = EXPORTABLE_TABLES
    /\ Len(loop.results) = Len(EXPORTABLE_TABLES)
    /\ loop.summary # <<>>
    /\ loop.summary[1] = Cardinality(Succeeded)
    /\ loop.summary[2] = WrittenRows(Succeeded)
    /\ (ret = "True") <=> (Succeeded = DOMAIN EXPORTABLE_TABLES)

\* The part of C11 that does not depend on the second query: in a run that
\* printed its summary every table was attempted once in list order, the
\* succeeded count is right and True is returned exactly when all succeeded.
ExportAllCounts ==
  ExportAllRan /\ loop.summary # <<>> =>
    /\ SelectedTables = EXPORTABLE_TABLES
    /\ Len(loop.results) = Len(EXPORTABLE_TABLES)
    /\ loop.summary[1] = Cardinality(Succeeded)
    /\ (ret = "True") <=> (Succeeded = DOMAIN EXPORTABLE_TABLES)

\* A run whose summary overstates the rows written although every statement
\* succeeded.
SummaryOverstates ==
  /\ ExportAllRan
  /\ loop.summary # <<>>
  /\ exc = "none"
  /\ Succeeded = DOMAIN EXPORTABLE_TABLES
  /\ loop.summary[2] > WrittenRows(Succeeded)

====
